---- MODULE Spec2Model ----
(***************************************************************************)
(* Model of the two example programs of packages/sandbox-docker/example:   *)
(*   python-project/app.py  the Transform Script (a batch job)             *)
(*   python-flask/app.py    the Echo Server (one route, GET /)             *)
(* Strings are sequences of characters; each character is a one-element    *)
(* token ("sz" stands for U+00DF, whose uppercase form is the two          *)
(* characters "SS").  A process environment is a function from variable    *)
(* names to strings, like os.environ.                                      *)
(***************************************************************************)
EXTENDS Naturals, Sequences, FiniteSets

\* ------------------------------------------------------------------ bounds
MaxLen == 2
MaxRuns == 2
MaxReqs == 2

\* ------------------------------------------------------------ the strings
Alphabet == {"a", "1", "sz"}

RECURSIVE StringsOfLen(_)
StringsOfLen(n) ==
  IF n = 0 THEN {<<>>}
  ELSE {<<c>> \o s : c \in Alphabet, s \in StringsOfLen(n - 1)}

Strings == UNION {StringsOfLen(n) : n \in 0..MaxLen}

NoEnv == [k \in {} |-> <<>>]
Environs == {NoEnv} \cup {[k \in {"INPUT_VALUE"} |-> v] : v \in Strings}

\* os.environ.get(key, default)
environ_get(env, key, default) == IF key \in DOMAIN env THEN env[key] ELSE default

\* str.upper() on the characters the model uses
LowerToUpper ==
  [a |-> "A", d |-> "D", e |-> "E", f |-> "F", l |-> "L", t |-> "T", u |-> "U"]

upperChar(c) ==
  IF c = "sz" THEN <<"S", "S">>
  ELSE IF c \in DOMAIN LowerToUpper THEN <<LowerToUpper[c]>>
  ELSE <<c>>

RECURSIVE upper(_)
upper(s) == IF s = <<>> THEN <<>> ELSE upperChar(Head(s)) \o upper(Tail(s))

\* ================================================= python-project/app.py
script_default == <<"d", "e", "f", "a", "u", "l", "t">>

ProcessedPrefix ==
  <<"P", "r", "o", "c", "e", "s", "s", "e", "d", " ",
    "i", "n", "p", "u", "t", ":", " ">>

\* line 3
get_input_value(env) == environ_get(env, "INPUT_VALUE", script_default)

\* line 4
format_result_no_upper(v) == ProcessedPrefix \o v

format_result(v) == ProcessedPrefix \o upper(v)

VARIABLES
  environ,      \* os.environ of the script's process
  pc,           \* the statement the script is about to run
  input_value,  \* module global, line 3
  result,       \* module global, line 4
  dirState,     \* what /app/output is: "absent", "dir" or "file"
  fileExists,   \* whether /app/output/output.txt exists
  fileContent,  \* its content on disk
  fOpen,        \* whether the handle f is open
  buf,          \* data written to f and not yet flushed
  stdout,       \* what this run has printed
  err,          \* the statement whose exception is propagating, or "none"
  exitCode,     \* exit status once pc = "done"
  runs,         \* number of runs started
  preExists,    \* history: fileExists when this run started
  preContent,   \* history: fileContent when this run started
  prevOk,       \* history: the previous run exited 0
  sameInput     \* history: this run has the previous run's environment

VARIABLES
  srvEnviron,   \* os.environ of the server's process
  srvState,     \* "init", "listening" or "stopped"
  resp,         \* the last response sent
  prev,         \* the response before it
  reqEnviron,   \* history: srvEnviron when the last request was handled
  reqs          \* number of requests handled

scriptVars ==
  <<environ, pc, input_value, result, dirState, fileExists, fileContent, fOpen,
    buf, stdout, err, exitCode, runs, preExists, preContent, prevOk, sameInput>>
serverVars == <<srvEnviron, srvState, resp, prev, reqEnviron, reqs>>
vars == <<scriptVars, serverVars>>

\* the order of the statements of the script
next_line_print_first(l) ==
  CASE l = "getenv" -> "format"
    [] l = "format" -> "print"
    [] l = "print" -> "makedirs"
    [] l = "makedirs" -> "open"
    [] l = "open" -> "write"
    [] l = "write" -> "close"
    [] l = "close" -> "done"

next_line(l) ==
  CASE l = "getenv" -> "format"
    [] l = "format" -> "makedirs"
    [] l = "makedirs" -> "open"
    [] l = "open" -> "write"
    [] l = "write" -> "close"
    [] l = "close" -> "print"
    [] l = "print" -> "done"

\* exit status of the interpreter: 1 after an uncaught exception
exit_code_swallowed(e) == 0

exit_code(e) == IF e = "none" THEN 0 ELSE 1

\* os.makedirs('/app/output', exist_ok=True): whether it returns normally.
\* `permitted` is whether the file system lets the directory be created.
makedirs_no_exist_ok(state, permitted) ==
  CASE state = "dir" -> FALSE
    [] state = "absent" -> permitted
    [] state = "file" -> FALSE

makedirs_ok(state, permitted) ==
  CASE state = "dir" -> TRUE
    [] state = "absent" -> permitted
    [] state = "file" -> FALSE

\* open(..., 'w'): the content of the file once it is open
open_a(content) == content

open_w(content) == <<>>

\* leaving the with block: whether f is still open afterwards
with_exit_leaky(isOpen, e) == IF e = "none" THEN FALSE ELSE isOpen

with_exit(isOpen, e) == FALSE

Raise(e) ==
  /\ err' = e
  /\ pc' = "done"
  /\ exitCode' = exit_code(e)

Advance ==
  /\ pc' = next_line(pc)
  /\ exitCode' = IF next_line(pc) = "done" THEN exit_code(err) ELSE exitCode
  /\ UNCHANGED err

\* what a statement of the script leaves alone: the history and the server
history == <<runs, preExists, preContent, prevOk, sameInput>>
frame == <<history, serverVars>>

\* line 3: input_value = os.environ.get('INPUT_VALUE', 'default')
GetEnv ==
  /\ pc = "getenv"
  /\ input_value' = get_input_value(environ)
  /\ Advance
  /\ UNCHANGED <<environ, result, dirState, fileExists, fileContent, fOpen, buf,
                 stdout, frame>>

\* line 4: result = f"Processed input: {input_value.upper()}"
Format ==
  /\ pc = "format"
  /\ result' = format_result(input_value)
  /\ Advance
  /\ UNCHANGED <<environ, input_value, dirState, fileExists, fileContent, fOpen,
                 buf, stdout, frame>>

\* line 6: os.makedirs('/app/output', exist_ok=True)
MakeDirs ==
  /\ pc = "makedirs"
  /\ \E permitted \in BOOLEAN :
       IF makedirs_ok(dirState, permitted)
       THEN /\ dirState' = "dir"
            /\ Advance
       ELSE /\ Raise("makedirs")
            /\ UNCHANGED dirState
  /\ UNCHANGED <<environ, input_value, result, fileExists, fileContent, fOpen,
                 buf, stdout, frame>>

\* line 7: with open('/app/output/output.txt', 'w') as f
OpenFile ==
  /\ pc = "open"
  /\ \E permitted \in BOOLEAN :
       IF permitted /\ dirState = "dir"
       THEN /\ fileExists' = TRUE
            /\ fileContent' = open_w(fileContent)
            /\ fOpen' = TRUE
            /\ buf' = <<>>
            /\ Advance
       ELSE /\ Raise("open")
            /\ UNCHANGED <<fileExists, fileContent, fOpen, buf>>
  /\ UNCHANGED <<environ, input_value, result, dirState, stdout, frame>>

\* line 8: f.write(result).  The text goes to f's buffer; the statement fails
\* when the text cannot be encoded, and control then leaves the with block.
Write ==
  /\ pc = "write"
  /\ fOpen
  /\ \E encodable \in BOOLEAN :
       IF encodable
       THEN buf' = buf \o result /\ UNCHANGED err
       ELSE buf' = buf /\ err' = "write"
  /\ pc' = next_line(pc)
  /\ UNCHANGED <<environ, input_value, result, dirState, fileExists, fileContent,
                 fOpen, stdout, exitCode, frame>>

\* lines 7-8: the end of the with block.  f is flushed and closed; the flush
\* may stop after j characters (disk full, I/O error).
Close ==
  /\ pc = "close"
  /\ \E j \in 0..Len(buf) :
       /\ fileContent' = fileContent \o SubSeq(buf, 1, j)
       /\ LET e == IF err # "none" THEN err
                   ELSE IF j < Len(buf) THEN "close" ELSE "none"
          IN  /\ fOpen' = with_exit(fOpen, e)
              /\ IF e = "none" THEN Advance ELSE Raise(e)
  /\ buf' = <<>>
  /\ UNCHANGED <<environ, input_value, result, dirState, fileExists, stdout,
                 frame>>

\* line 10: print(result)
PrintResult ==
  /\ pc = "print"
  /\ \E writable \in BOOLEAN :
       IF writable
       THEN /\ stdout' = stdout \o result \o <<"\n">>
            /\ Advance
       ELSE /\ Raise("print")
            /\ UNCHANGED stdout
  /\ UNCHANGED <<environ, input_value, result, dirState, fileExists, fileContent,
                 fOpen, buf, frame>>

\* the harness runs the script again, in a new process with environment env
Rerun ==
  /\ pc = "done"
  /\ runs < MaxRuns
  /\ \E env \in Environs :
       /\ environ' = env
       /\ sameInput' = (env = environ)
  /\ pc' = "getenv"
  /\ input_value' = <<>>
  /\ result' = <<>>
  /\ fOpen' = FALSE
  /\ buf' = <<>>
  /\ stdout' = <<>>
  /\ err' = "none"
  /\ exitCode' = 0
  /\ runs' = runs + 1
  /\ preExists' = fileExists
  /\ preContent' = fileContent
  /\ prevOk' = (exitCode = 0)
  /\ UNCHANGED <<dirState, fileExists, fileContent, serverVars>>

ScriptInit ==
  /\ environ \in Environs
  /\ pc = "getenv"
  /\ input_value = <<>>
  /\ result = <<>>
  /\ dirState \in {"absent", "dir", "file"}
  /\ fileExists = FALSE
  /\ fileContent = <<>>
  /\ fOpen = FALSE
  /\ buf = <<>>
  /\ stdout = <<>>
  /\ err = "none"
  /\ exitCode = 0
  /\ runs = 1
  /\ preExists = FALSE
  /\ preContent = <<>>
  /\ prevOk = FALSE
  /\ sameInput = FALSE

ScriptNotStarted ==
  /\ environ = NoEnv
  /\ pc = "idle"
  /\ input_value = <<>>
  /\ result = <<>>
  /\ dirState = "absent"
  /\ fileExists = FALSE
  /\ fileContent = <<>>
  /\ fOpen = FALSE
  /\ buf = <<>>
  /\ stdout = <<>>
  /\ err = "none"
  /\ exitCode = 0
  /\ runs = 0
  /\ preExists = FALSE
  /\ preContent = <<>>
  /\ prevOk = FALSE
  /\ sameInput = FALSE

\* =================================================== python-flask/app.py
server_default ==
  <<"D", "e", "f", "a", "u", "l", "t", " ", "V", "a", "l", "u", "e">>

HelloPrefix ==
  <<"H", "e", "l", "l", "o", " ", "d", "o", "c", "k", "e", "r", " ",
    "f", "i", "l", "e", " ", "f", "r", "o", "m", " ",
    "F", "l", "a", "s", "k", "!", " ", "I", "n", "p", "u", "t", ":", " ">>

NoResponse == [status |-> 0, body |-> <<>>]

\* lines 8-9: the body hello() returns in environment env
hello_body_upper(env) ==
  HelloPrefix \o upper(environ_get(env, "INPUT_VALUE", server_default))

hello_body_cached(env) ==
  IF resp.status = 200 THEN resp.body
  ELSE HelloPrefix \o environ_get(env, "INPUT_VALUE", server_default)

hello_body(env) ==
  HelloPrefix \o environ_get(env, "INPUT_VALUE", server_default)

\* lines 7-9: hello() as a step of the server
hello_pops_environ ==
  /\ resp' = [status |-> 200, body |-> hello_body(srvEnviron)]
  /\ srvEnviron' = NoEnv
  /\ UNCHANGED srvState

hello ==
  /\ resp' = [status |-> 200, body |-> hello_body(srvEnviron)]
  /\ UNCHANGED <<srvEnviron, srvState>>

\* line 12: app.run(host='0.0.0.0', port=8081)
Run ==
  /\ srvState = "init"
  /\ srvState' = "listening"
  /\ UNCHANGED <<srvEnviron, resp, prev, reqEnviron, reqs, scriptVars>>

\* line 6: a request for `path`; only '/' is routed to hello()
Request(path) ==
  /\ srvState = "listening"
  /\ reqs < MaxReqs
  /\ IF path = "/"
     THEN hello
     ELSE /\ resp' = [status |-> 404, body |-> <<>>]
          /\ UNCHANGED <<srvEnviron, srvState>>
  /\ prev' = resp
  /\ reqEnviron' = srvEnviron
  /\ reqs' = reqs + 1
  /\ UNCHANGED scriptVars

HandleRequest == \E path \in {"/", "/other"} : Request(path)

\* the server's environment is changed while it runs
SetEnv ==
  /\ srvState = "listening"
  /\ \E env \in Environs : srvEnviron' = env /\ env # srvEnviron
  /\ UNCHANGED <<srvState, resp, prev, reqEnviron, reqs, scriptVars>>

\* the server is terminated from outside
Terminate ==
  /\ srvState = "listening"
  /\ srvState' = "stopped"
  /\ UNCHANGED <<srvEnviron, resp, prev, reqEnviron, reqs, scriptVars>>

ServerInit ==
  /\ srvEnviron \in Environs
  /\ srvState = "init"
  /\ resp = NoResponse
  /\ prev = NoResponse
  /\ reqEnviron = NoEnv
  /\ reqs = 0

ServerNotStarted ==
  /\ srvEnviron = NoEnv
  /\ srvState = "init"
  /\ resp = NoResponse
  /\ prev = NoResponse
  /\ reqEnviron = NoEnv
  /\ reqs = 0

\* ------------------------------------------------------ specifications
\* the Transform Script alone
Init == ScriptInit /\ ServerNotStarted
Next ==
  \/ GetEnv
  \/ Format
  \/ MakeDirs
  \/ OpenFile
  \/ Write
  \/ Close
  \/ PrintResult
  \/ Rerun
Spec == Init /\ [][Next]_vars

\* the Echo Server alone
InitServer == ScriptNotStarted /\ ServerInit
NextServer ==
  \/ Run
  \/ HandleRequest
  \/ SetEnv
  \/ Terminate
SpecServer == InitServer /\ [][NextServer]_vars

\* =============================================================== claims
IsPrefix(p, s) == Len(p) <= Len(s) /\ SubSeq(s, 1, Len(p)) = p

HasInput(env) == "INPUT_VALUE" \in DOMAIN env

\* the uppercase form of a string over Alphabet, written out per character
RefUpperChar(c) ==
  CASE c = "a" -> <<"A">>
    [] c = "1" -> <<"1">>
    [] c = "sz" -> <<"S", "S">>

RECURSIVE RefUpper(_)
RefUpper(s) ==
  IF Len(s) = 0 THEN <<>>
  ELSE RefUpper(SubSeq(s, 1, Len(s) - 1)) \o RefUpperChar(s[Len(s)])

ProcessedDefault ==
  <<"P", "r", "o", "c", "e", "s", "s", "e", "d", " ",
    "i", "n", "p", "u", "t", ":", " ", "D", "E", "F", "A", "U", "L", "T">>

HelloDefault ==
  <<"H", "e", "l", "l", "o", " ", "d", "o", "c", "k", "e", "r", " ",
    "f", "i", "l", "e", " ", "f", "r", "o", "m", " ",
    "F", "l", "a", "s", "k", "!", " ", "I", "n", "p", "u", "t", ":", " ",
    "D", "e", "f", "a", "u", "l", "t", " ", "V", "a", "l", "u", "e">>

ExpectedResult(env) ==
  IF HasInput(env) THEN ProcessedPrefix \o RefUpper(env["INPUT_VALUE"])
  ELSE ProcessedDefault

ExpectedBody(env) ==
  IF HasInput(env) THEN HelloPrefix \o env["INPUT_VALUE"] ELSE HelloDefault

Succeeded == pc = "done" /\ exitCode = 0

\* the run has opened the output file
Opened ==
  \/ pc \in {"write", "close", "print"}
  \/ pc = "done" /\ err \notin {"makedirs", "open"}

\* C1: a run of the Transform Script that exits 0 leaves output.txt holding
\* exactly "Processed input: " followed by the uppercased INPUT_VALUE
\* ("Processed input: DEFAULT" when INPUT_VALUE is unset), and has printed
\* that string and a newline.
C1_TransformOutput ==
  Succeeded =>
    /\ fileExists
    /\ fileContent = ExpectedResult(environ)
    /\ stdout = ExpectedResult(environ) \o <<"\n">>

C1_Witness ==
  /\ Succeeded
  /\ HasInput(environ)
  /\ environ["INPUT_VALUE"] = <<"sz", "a">>
  /\ fileContent = ProcessedPrefix \o <<"S", "S", "A">>

\* C2: a response to a request for / carries exactly "Hello docker file from
\* Flask! Input: " followed by the INPUT_VALUE the request was handled under,
\* or by "Default Value" when it was unset.
C2_EchoBody ==
  resp.status = 200 => resp.body = ExpectedBody(reqEnviron)

C2_Witness ==
  /\ resp.status = 200
  /\ HasInput(reqEnviron)
  /\ reqEnviron["INPUT_VALUE"] = <<"a", "1">>
  /\ resp.body = HelloPrefix \o <<"a", "1">>

\* C3: when a successful run follows a successful run with the same
\* INPUT_VALUE, output.txt holds after the second run what it held after the
\* first: the file is overwritten, not appended to.
C3_RerunSameContent ==
  (Succeeded /\ prevOk /\ sameInput) =>
    /\ preExists
    /\ fileContent = preContent

C3_Witness ==
  /\ Succeeded
  /\ prevOk
  /\ sameInput
  /\ runs >= 2
  /\ fileContent = preContent
  /\ Len(fileContent) > Len(ProcessedPrefix)

\* C4: when /app/output is already a directory, the makedirs statement does
\* not fail: the run goes on to open the file, with no exception raised.
C4_MakedirsExisting ==
  [][(pc = "makedirs" /\ dirState = "dir")
       => (pc' = "open" /\ err' = "none" /\ dirState' = "dir")]_vars

C4_Witness ==
  /\ pc = "open"
  /\ err = "none"
  /\ runs >= 2
  /\ preExists

\* C5: a finished run has exit code 0 exactly when no statement failed, and
\* a failure of the directory creation or of the open is fatal: whenever one
\* has happened the run is over, with a non-zero exit code, so the failed
\* statement is not run again.
C5_ExitCodes ==
  /\ pc = "done" => (exitCode = 0 <=> err = "none")
  /\ err \in {"makedirs", "open"} => (pc = "done" /\ exitCode # 0)

C5_Witness ==
  /\ pc = "done"
  /\ err = "open"
  /\ exitCode = 1
  /\ dirState = "dir"

\* C6: each response to a request for / carries the value INPUT_VALUE has in
\* the server's environment when that request is handled, whatever earlier
\* requests returned and however the environment changed in between.
C6_NoCaching ==
  [][(reqs' = reqs + 1 /\ resp'.status = 200)
       => resp'.body = ExpectedBody(srvEnviron)]_vars

C6_Witness ==
  /\ reqs >= 2
  /\ prev.status = 200
  /\ resp.status = 200
  /\ prev.body # resp.body
  /\ resp.body = ExpectedBody(srvEnviron)

\* C7: standard output is written only after the file has been completely
\* written and closed; a run that fails while creating the directory or
\* writing the file has printed nothing, and a run that fails while creating
\* the directory has neither opened nor changed the file.
C7_SideEffectOrder ==
  /\ stdout # <<>> =>
       /\ dirState = "dir"
       /\ fileExists
       /\ fileContent = result
       /\ buf = <<>>
       /\ ~fOpen
  /\ err \in {"makedirs", "open", "write", "close"} => stdout = <<>>
  /\ err = "makedirs" =>
       /\ ~fOpen
       /\ fileExists = preExists
       /\ fileContent = preContent

C7_Witness ==
  /\ pc = "done"
  /\ err = "close"
  /\ stdout = <<>>
  /\ fileContent # <<>>
  /\ fileContent # result

\* C8: no terminated run holds the output file open; the handle is open only
\* inside the with block, and is closed on the path where the write fails.
C8_HandleClosed ==
  /\ pc = "done" => ~fOpen
  /\ fOpen => pc \in {"write", "close"}

C8_Witness ==
  /\ pc = "done"
  /\ err = "write"
  /\ fileExists
  /\ ~fOpen

\* C9: handling a request changes neither the server's environment nor its
\* state, which is "listening" before and after, nor anything else but the
\* response.
C9_RequestFrame ==
  [][reqs' # reqs
       => /\ srvState = "listening"
          /\ srvState' = "listening"
          /\ srvEnviron' = srvEnviron
          /\ UNCHANGED scriptVars]_vars

C9_Witness ==
  /\ reqs >= 2
  /\ srvState = "listening"
  /\ resp.status = 200
  /\ HasInput(srvEnviron)

\* C10: in every state of a run, output.txt is as it was when the run began
\* (the run has not opened it) or exists and holds a prefix of the new result
\* string; it never holds old content followed by or mixed with new content.
C10_FileContent ==
  IF Opened
  THEN fileExists /\ IsPrefix(fileContent, result)
  ELSE fileExists = preExists /\ fileContent = preContent

C10_Witness ==
  /\ pc = "done"
  /\ err = "close"
  /\ runs >= 2
  /\ ~IsPrefix(preContent, result)
  /\ fileContent # <<>>
  /\ fileContent # result
  /\ IsPrefix(fileContent, result)

====
